---- MODULE Spec2Model ----
(***************************************************************************)
(* Model of the pathfinder RPC method registration/dispatch adapter        *)
(* (crates/pathfinder/src/rpc/v02.rs) and of the L1 polling producer       *)
(* (crates/pathfinder/src/state/sync/l1.rs).                               *)
(***************************************************************************)
EXTENDS Integers, Sequences, FiniteSets, TLC

(***************************************************************************)
(* Bounds of the model.                                                    *)
(***************************************************************************)
MaxQueries == 3
MaxClock == 7
MaxDelay == 1
MaxInterval == 2
MaxCap == 1
MaxContexts == 3

\* Values the upstream client can return (L1StateUpdate is opaque to sync).
L1States == {"s1", "s2"}

VARIABLES
    \* ---- state/sync/l1.rs : sync ----
    pc,             \* position of the sync task
    clock,          \* tokio time, in ticks
    deadline,       \* deadline of the sleep the task is suspended in
    start_delay,    \* argument of sync
    poll_interval,  \* argument of sync
    state,          \* the Ok(state) value held by the pending send
    result,         \* what the task returned: "none" while running
    errors_logged,  \* number of tracing::error! records written
    queue,          \* values buffered in the mpsc channel
    capacity,       \* capacity of the (bounded) mpsc channel
    rx_alive,       \* the Receiver has been neither dropped nor closed
    received,       \* values the consumer has taken out of the channel
    waiting_since,  \* time at which the sleep the task is suspended in was created
    closed_at,      \* number of steps the task had completed when the Receiver
                    \* was dropped; -1 while it is alive
    trace,          \* history of the task's completed steps
    \* ---- rpc/v02.rs : register_method, register_method_with_no_input ----
    methods,        \* routing table of the RpcModule: name -> bound callback
    counters,       \* metrics registry: name -> value of rpc_method_calls_total
    reg_calls,      \* number of registration calls made, per name
    reg_result,     \* what the last registration call returned
    context,        \* the RpcContext the RpcModule shares with every callback
    inv,            \* the invocations: callback futures handed to the transport
    handler_calls,  \* number of times each handler function has been called
    \* ---- rpc/v02.rs : RpcContext ----
    ctx_args,       \* the arguments RpcContext::new was called with
    ctxs            \* the RpcContext values made from that one so far

syncVars == <<pc, clock, deadline, start_delay, poll_interval, state, result,
              errors_logged, queue, capacity, rx_alive, received,
              waiting_since, closed_at, trace>>

rpcVars == <<methods, counters, reg_calls, reg_result, context, inv,
             handler_calls>>

ctxVars == <<ctx_args, ctxs>>

vars == <<syncVars, rpcVars, ctxVars>>

Event(ev, val) == [ev |-> ev, val |-> val]

\* Mutant of Sleep: the sleep completes at once.
Sleep_NoWait(d) == clock

\* tokio::time::sleep(d) created now: it completes no sooner than now + d.
Sleep(d) == clock + d

Elapsed == clock >= deadline

\* Number of queries the task has issued so far.
Queries == Cardinality({i \in 1..Len(trace) : trace[i].ev = "poll_wait"})

\* l1.rs:5-11  sync(tx_event, ethereum_client, start_delay, poll_interval)
\* is spawned with a channel of the given capacity.
SyncStart(delay, interval, cap) ==
    /\ pc = "start_delay"
    /\ clock = 0
    /\ start_delay = delay
    /\ poll_interval = interval
    /\ deadline = Sleep(delay)
    /\ state = "none"
    /\ result = "none"
    /\ errors_logged = 0
    /\ queue = <<>>
    /\ capacity = cap
    /\ rx_alive = TRUE
    /\ received = <<>>
    /\ waiting_since = 0
    /\ closed_at = -1
    /\ trace = <<>>

SyncInit ==
    \E delay \in 0..MaxDelay, interval \in 0..MaxInterval, cap \in 1..MaxCap :
        SyncStart(delay, interval, cap)

\* Time passes.
Tick ==
    /\ UNCHANGED rpcVars
    /\ UNCHANGED ctxVars
    /\ UNCHANGED closed_at
    /\ clock < MaxClock
    /\ clock' = clock + 1
    /\ UNCHANGED <<pc, deadline, start_delay, poll_interval, state, result,
                   errors_logged, queue, capacity, rx_alive, received,
                   waiting_since, trace>>

\* l1.rs:11  tokio::time::sleep(start_delay).await completes; the loop is
\* entered and the first poll-interval sleep is created.
StartDelayElapsed ==
    /\ UNCHANGED rpcVars
    /\ UNCHANGED ctxVars
    /\ UNCHANGED closed_at
    /\ pc = "start_delay"
    /\ Elapsed
    /\ pc' = "poll_wait"
    /\ deadline' = Sleep(poll_interval)
    /\ waiting_since' = clock
    /\ trace' = Append(trace, Event("start_delay", "none"))
    /\ UNCHANGED <<clock, start_delay, poll_interval, state, result,
                   errors_logged, queue, capacity, rx_alive, received>>

\* l1.rs:14,16  the poll-interval sleep completes and get_starknet_state()
\* is called: the query is in flight.
PollIntervalElapsed ==
    /\ UNCHANGED rpcVars
    /\ UNCHANGED ctxVars
    /\ UNCHANGED closed_at
    /\ pc = "poll_wait"
    /\ Elapsed
    /\ Queries < MaxQueries
    /\ pc' = "query"
    /\ trace' = Append(trace, Event("poll_wait", "none"))
    /\ UNCHANGED <<clock, deadline, start_delay, poll_interval, state, result,
                   errors_logged, queue, capacity, rx_alive, received,
                   waiting_since>>

\* Mutant of AfterQueryErr: a failed query ends the loop.
AfterQueryErr_Fatal == "done"

\* Where the loop goes after the Err arm (l1.rs:18): back to the top.
AfterQueryErr == "poll_wait"

\* Mutant of QueryOk: the value sent is the first one ever obtained, not
\* the result of this query.
QueryOk_StaleValue ==
    /\ UNCHANGED rpcVars
    /\ UNCHANGED ctxVars
    /\ UNCHANGED closed_at
    /\ pc = "query"
    /\ \E s \in L1States :
        /\ state' = IF received \o queue = <<>> THEN s ELSE Head(received \o queue)
        /\ trace' = Append(trace, Event("query_ok", s))
    /\ pc' = "send"
    /\ UNCHANGED <<clock, deadline, start_delay, poll_interval, result,
                   errors_logged, queue, capacity, rx_alive, received,
                   waiting_since>>

\* Mutant of QueryOk: the send is left behind and the loop goes on to the
\* next poll-interval wait while it is still pending.
QueryOk_DetachedSend ==
    /\ UNCHANGED rpcVars
    /\ UNCHANGED ctxVars
    /\ UNCHANGED closed_at
    /\ pc = "query"
    /\ \E s \in L1States :
        /\ state' = s
        /\ trace' = Append(trace, Event("query_ok", s))
    /\ pc' = "poll_wait"
    /\ deadline' = Sleep(poll_interval)
    /\ waiting_since' = clock
    /\ UNCHANGED <<clock, start_delay, poll_interval, result,
                   errors_logged, queue, capacity, rx_alive, received>>

\* l1.rs:16-17  the query returns Ok(state): tx_event.send(state) is started.
QueryOk ==
    /\ UNCHANGED rpcVars
    /\ UNCHANGED ctxVars
    /\ UNCHANGED closed_at
    /\ pc = "query"
    /\ \E s \in L1States :
        /\ state' = s
        /\ trace' = Append(trace, Event("query_ok", s))
    /\ pc' = "send"
    /\ UNCHANGED <<clock, deadline, start_delay, poll_interval, result,
                   errors_logged, queue, capacity, rx_alive, received,
                   waiting_since>>

\* Mutant of QueryErr: a failed query is retried at once, without a wait.
QueryErr_RetryNow ==
    /\ UNCHANGED rpcVars
    /\ UNCHANGED ctxVars
    /\ UNCHANGED closed_at
    /\ pc = "query"
    /\ errors_logged' = errors_logged + 1
    /\ pc' = "query"
    /\ trace' = Append(trace, Event("query_err", "none"))
    /\ UNCHANGED <<clock, deadline, start_delay, poll_interval, state, result,
                   queue, capacity, rx_alive, received, waiting_since>>

\* Mutant of QueryErr: the Err arm looks at the channel and ends the task
\* as soon as it finds it closed.
QueryErr_ExitsWhenClosed ==
    /\ UNCHANGED rpcVars
    /\ UNCHANGED ctxVars
    /\ UNCHANGED closed_at
    /\ pc = "query"
    /\ errors_logged' = errors_logged + 1
    /\ pc' = IF rx_alive THEN "poll_wait" ELSE "done"
    /\ result' = IF rx_alive THEN result ELSE "Err"
    /\ deadline' = Sleep(poll_interval)
    /\ waiting_since' = clock
    /\ trace' = Append(trace, Event("query_err", "none"))
    /\ UNCHANGED <<clock, start_delay, poll_interval, state,
                   queue, capacity, rx_alive, received>>

\* l1.rs:16,18  the query returns Err(e): the error is logged and the loop
\* continues with the next poll-interval sleep.
QueryErr ==
    /\ UNCHANGED rpcVars
    /\ UNCHANGED ctxVars
    /\ UNCHANGED closed_at
    /\ pc = "query"
    /\ errors_logged' = errors_logged + 1
    /\ pc' = AfterQueryErr
    /\ deadline' = Sleep(poll_interval)
    /\ waiting_since' = clock
    /\ trace' = Append(trace, Event("query_err", "none"))
    /\ UNCHANGED <<clock, start_delay, poll_interval, state, result,
                   queue, capacity, rx_alive, received>>

\* Mutant of SendErrResult: the send error is swallowed.
SendErrResult_Ok == "Ok"

\* Result of the task when Sender::send returns Err(SendError): the `?`
\* of l1.rs:17 returns it from sync.
SendErrResult == "Err"

\* Mutant of SendOk: the send never waits (try_send): when the channel is
\* full the value is given up and the loop goes on.
SendOk_TrySend ==
    /\ UNCHANGED rpcVars
    /\ UNCHANGED ctxVars
    /\ UNCHANGED closed_at
    /\ pc = "send"
    /\ rx_alive
    /\ queue' = IF Len(queue) < capacity THEN Append(queue, state) ELSE queue
    /\ state' = "none"
    /\ pc' = "poll_wait"
    /\ deadline' = Sleep(poll_interval)
    /\ waiting_since' = clock
    /\ trace' = Append(trace, Event("send_ok", state))
    /\ UNCHANGED <<clock, start_delay, poll_interval, result, errors_logged,
                   capacity, rx_alive, received>>

\* l1.rs:17  tx_event.send(state).await completes with Ok(()): the receiver
\* is alive and the channel has room.
SendOk ==
    /\ UNCHANGED rpcVars
    /\ UNCHANGED ctxVars
    /\ UNCHANGED closed_at
    /\ pc = "send"
    /\ rx_alive
    /\ Len(queue) < capacity
    /\ queue' = Append(queue, state)
    /\ state' = "none"
    /\ pc' = "poll_wait"
    /\ deadline' = Sleep(poll_interval)
    /\ waiting_since' = clock
    /\ trace' = Append(trace, Event("send_ok", state))
    /\ UNCHANGED <<clock, start_delay, poll_interval, result, errors_logged,
                   capacity, rx_alive, received>>

\* Mutant of SendErr: a failed send is treated like a failed query.
SendErr_Continue ==
    /\ UNCHANGED rpcVars
    /\ UNCHANGED ctxVars
    /\ UNCHANGED closed_at
    /\ pc = "send"
    /\ ~rx_alive
    /\ pc' = "poll_wait"
    /\ deadline' = Sleep(poll_interval)
    /\ waiting_since' = clock
    /\ state' = "none"
    /\ trace' = Append(trace, Event("send_err", state))
    /\ UNCHANGED <<clock, start_delay, poll_interval, result, errors_logged,
                   queue, capacity, rx_alive, received>>

\* l1.rs:17  tx_event.send(state).await completes with Err: the receiver is
\* gone; `?` ends the task with the error.
SendErr ==
    /\ UNCHANGED rpcVars
    /\ UNCHANGED ctxVars
    /\ UNCHANGED closed_at
    /\ pc = "send"
    /\ ~rx_alive
    /\ pc' = "done"
    /\ result' = SendErrResult
    /\ state' = "none"
    /\ trace' = Append(trace, Event("send_err", state))
    /\ UNCHANGED <<clock, deadline, start_delay, poll_interval, errors_logged,
                   queue, capacity, rx_alive, received, waiting_since>>

\* The consumer takes the next value out of the channel.
Recv ==
    /\ UNCHANGED rpcVars
    /\ UNCHANGED ctxVars
    /\ UNCHANGED closed_at
    /\ rx_alive
    /\ queue # <<>>
    /\ received' = Append(received, Head(queue))
    /\ queue' = Tail(queue)
    /\ UNCHANGED <<pc, clock, deadline, start_delay, poll_interval, state,
                   result, errors_logged, capacity, rx_alive, waiting_since,
                   trace>>

\* The consumer drops (or closes) its Receiver.
DropReceiver ==
    /\ UNCHANGED rpcVars
    /\ UNCHANGED ctxVars
    /\ rx_alive
    /\ rx_alive' = FALSE
    /\ closed_at' = Len(trace)
    /\ UNCHANGED <<pc, clock, deadline, start_delay, poll_interval, state,
                   result, errors_logged, queue, capacity, received,
                   waiting_since, trace>>

SyncNext ==
    \/ Tick
    \/ StartDelayElapsed
    \/ PollIntervalElapsed
    \/ QueryOk
    \/ QueryErr
    \/ SendOk
    \/ SendErr
    \/ Recv
    \/ DropReceiver

(***************************************************************************)
(* rpc/v02.rs                                                              *)
(***************************************************************************)
MaxRegs == 2
MaxInv == 2

\* The method names (the routing key, the metrics label, the span name).
MethodNames == {"m1", "m2"}

\* The handler functions passed as `method`.
Handlers == {"h1", "h2"}

\* The Input types a handler can declare.
InputTypes == {"number", "text"}

\* Raw, transport-level parameters: a positional array of JSON tokens.
RawParams == {<<"7">>, <<"x">>}

\* The parameters once they have been consumed or dropped.
NoParams == <<>>

\* What a handler can return: Result<Output, Error>.
HandlerErrors == {"BlockNotFound", "Internal"}

HandlerResults ==
    {[tag |-> "Ok", val |-> "o1"]} \cup
    {[tag |-> "Err", val |-> e] : e \in HandlerErrors}

NoResult == [tag |-> "none", val |-> "none"]

NoError == [code |-> 0, message |-> "none"]

NoResponse == [tag |-> "none", val |-> "none", error |-> NoError]

OkResponse(v) == [tag |-> "Ok", val |-> v, error |-> NoError]

ErrResponse(e) == [tag |-> "Err", val |-> "none", error |-> e]

NoBinding == [method |-> "none", input |-> "none"]

NoSpan == [name |-> "none", state |-> "none"]

NoContext == [storage |-> "none", pending_data |-> "none",
              sync_status |-> "none", chain |-> "none"]

\* Values of the arguments of RpcContext::new and of with_pending_data.
Storages == {"storage", "storage_b"}

SyncStatuses == {"sync_state"}

Chains == {"Mainnet", "Testnet"}

PendingDatas == {"pending_a", "pending_b"}

\* v02.rs:19-26  RpcContext::new
RpcContextNew(storage, sync_status, chain) ==
    [storage |-> storage, pending_data |-> "None",
     sync_status |-> sync_status, chain |-> chain]

\* v02.rs:10  #[derive(Clone)]: every field is cloned.
RpcContextClone(ctx) ==
    [storage |-> ctx.storage, pending_data |-> ctx.pending_data,
     sync_status |-> ctx.sync_status, chain |-> ctx.chain]

\* Mutant of RpcContextWithPendingData: the context is built again, for the
\* test network, and given the pending data.
RpcContextWithPendingData_Rebuilds(ctx, pending_data) ==
    [RpcContextNew(ctx.storage, ctx.sync_status, "Testnet")
        EXCEPT !.pending_data = pending_data]

\* v02.rs:35-40  with_pending_data(self, pending_data):
\* Self { pending_data: Some(pending_data), ..self }. Some(p) is written p.
RpcContextWithPendingData(ctx, pending_data) ==
    [ctx EXCEPT !.pending_data = pending_data]

IdleInv ==
    [pc |-> "idle", name |-> "none", params |-> NoParams, method |-> "none",
     context |-> NoContext, result |-> NoResult, span |-> NoSpan,
     response |-> NoResponse]

IsNumber(tok) == tok \in {"0", "7"}

\* v02.rs:81  params.parse::<Input>(): the positional array must hold exactly
\* what the Input type declares; anything else is an invalid-params error.
Parse(raw, ty) ==
    IF /\ Len(raw) = 1
       /\ \/ ty = "text"
          \/ ty = "number" /\ IsNumber(raw[1])
    THEN [tag |-> "Ok", val |-> [ty |-> ty, v |-> raw[1]]]
    ELSE [tag |-> "Err", val |-> [ty |-> "none", v |-> "none"]]

\* v02.rs:81  the `?` turns the parse failure into the transport's error.
ParseError == [code |-> -32602, message |-> "Invalid params"]

\* Into<RpcError> for a handler's error type (rpc/error.rs).
IntoRpcError(err) ==
    CASE err = "BlockNotFound" -> "RpcError::BlockNotFound"
      [] err = "Internal" -> "RpcError::Internal"

\* jsonrpsee::core::Error::from(rpc_err) (rpc/error.rs): code and message.
JsonRpseeError(rpc_err) ==
    CASE rpc_err = "RpcError::BlockNotFound" ->
            [code |-> 24, message |-> "Block not found"]
      [] rpc_err = "RpcError::Internal" ->
            [code |-> -32603, message |-> "Internal error"]

\* Mutant of MapErr: the handler's error is dropped and the call succeeds.
MapErr_Swallow(r) == OkResponse("none")

\* v02.rs:82-85, 124-127  .map_err(|err| Error::from(RpcError::from(err)))
MapErr(r) ==
    IF r.tag = "Ok"
    THEN OkResponse(r.val)
    ELSE ErrResponse(JsonRpseeError(IntoRpcError(r.val)))

\* Mutant of RegisterCounter: registering the counter also counts a call.
RegisterCounter_Increments(reg, name) ==
    [reg EXCEPT ![name] = [registered |-> TRUE, value |-> @.value + 1,
                           registrations |-> @.registrations + 1]]

\* v02.rs:75, 118  metrics::register_counter!("rpc_method_calls_total",
\* "method" => method_name): the counter is registered with the recorder
\* (once; registering again finds it) and the handle is discarded: nothing is
\* added to it. `registrations` counts the executions of the macro.
RegisterCounter(reg, name) ==
    [reg EXCEPT ![name] = [registered |-> TRUE, value |-> @.value,
                           registrations |-> @.registrations + 1]]

\* Mutant of RegisterAsyncMethod: a second registration replaces the first.
RegisterAsyncMethod_Overwrite(table, name, callback) ==
    [ok |-> table[name] = NoBinding,
     table |-> [table EXCEPT ![name] = callback]]

\* v02.rs:90-92, 132-134  module.register_async_method(method_name, callback):
\* fails when the name is already in the table and then leaves it as it is.
RegisterAsyncMethod(table, name, callback) ==
    IF table[name] # NoBinding
    THEN [ok |-> FALSE, table |-> table]
    ELSE [ok |-> TRUE, table |-> [table EXCEPT ![name] = callback]]

\* v02.rs:79, 122  tracing::info_span!("rpc_method", name = method_name)
InfoSpan(name) == [name |-> name, state |-> "idle"]

\* Mutant of SpanEnter: the span is not entered around the poll.
SpanEnter_Skip(span) == span

\* v02.rs:87, 129  .instrument(span): the span is entered for every poll of
\* the future, exited when the poll returns, closed when the future is dropped.
SpanEnter(span) == [span EXCEPT !.state = "entered"]

SpanExit(span) == [span EXCEPT !.state = "idle"]

SpanClose(span) == [span EXCEPT !.state = "closed"]

InFlight(i) == inv[i].pc \in {"created", "start", "handler", "suspended", "ready"}

TotalRegs == reg_calls["m1"] + reg_calls["m2"]

RpcInit ==
    /\ methods = [n \in MethodNames |-> NoBinding]
    /\ counters = [n \in MethodNames |->
                        [registered |-> FALSE, value |-> 0, registrations |-> 0]]
    /\ reg_calls = [n \in MethodNames |-> 0]
    /\ reg_result = "none"
    /\ context = RpcContextNew("storage", "sync_state", "Testnet")
    /\ inv = [i \in 1..MaxInv |-> IdleInv]
    /\ handler_calls = [h \in Handlers |-> 0]

\* Mutant of Register: the counter is registered only once the routing
\* table has accepted the name.
Register_CounterAfterTable(name, callback) ==
    /\ TotalRegs < MaxRegs
    /\ \A i \in 1..MaxInv : ~InFlight(i)
    /\ reg_calls' = [reg_calls EXCEPT ![name] = @ + 1]
    /\ LET r == RegisterAsyncMethod(methods, name, callback)
       IN  /\ methods' = r.table
           /\ reg_result' = IF r.ok THEN "Ok" ELSE "Err"
           /\ counters' = IF r.ok THEN RegisterCounter(counters, name)
                                  ELSE counters
    /\ UNCHANGED <<context, inv, handler_calls>>
    /\ UNCHANGED syncVars
    /\ UNCHANGED ctxVars

\* The body shared by both registration functions (v02.rs:75-94, 118-136):
\* the counter is registered first, then the routing table is asked;
\* `module` is borrowed mutably, so no invocation is in flight.
Register(name, callback) ==
    /\ TotalRegs < MaxRegs
    /\ \A i \in 1..MaxInv : ~InFlight(i)
    /\ counters' = RegisterCounter(counters, name)
    /\ reg_calls' = [reg_calls EXCEPT ![name] = @ + 1]
    /\ LET r == RegisterAsyncMethod(methods, name, callback)
       IN  /\ methods' = r.table
           /\ reg_result' = IF r.ok THEN "Ok" ELSE "Err"
    /\ UNCHANGED <<context, inv, handler_calls>>
    /\ UNCHANGED syncVars
    /\ UNCHANGED ctxVars

\* v02.rs:59-95  register_method(module, method_name, method)
RegisterMethod ==
    \E name \in MethodNames, h \in Handlers, ty \in InputTypes :
        /\ ty # "no_input"
        /\ Register(name, [method |-> h, input |-> ty])

\* v02.rs:104-137  register_method_with_no_input(module, method_name, method)
RegisterMethodWithNoInput ==
    \E name \in MethodNames, h \in Handlers :
        /\ h \in Handlers
        /\ Register(name, [method |-> h, input |-> "no_input"])

\* v02.rs:77, 120  what the callback's future holds of the raw parameters:
\* register_method moves them into the async block, the callback of
\* register_method_with_no_input ignores `_params`.
CapturedParams(callback, raw) ==
    IF callback.input = "no_input" THEN NoParams ELSE raw

\* v02.rs:77-79, 120-122  the transport routes a request to the bound
\* callback: the span is created and the instrumented future is returned.
MethodCallback(i) ==
    /\ inv[i].pc = "idle"
    /\ IF i = 1 THEN TRUE ELSE inv[i - 1].pc # "idle"
    /\ \E name \in MethodNames, raw \in RawParams :
        /\ methods[name] # NoBinding
        /\ inv' = [inv EXCEPT ![i] =
                [IdleInv EXCEPT !.pc = "created", !.name = name,
                                !.params = CapturedParams(methods[name], raw),
                                !.span = InfoSpan(name)]]
    /\ UNCHANGED <<methods, counters, reg_calls, reg_result, context,
                   handler_calls>>
    /\ UNCHANGED syncVars
    /\ UNCHANGED ctxVars

\* v02.rs:87, 129  the transport polls the instrumented future: the span is
\* entered and the async block runs (first poll), or the handler's future is
\* resumed (later polls).
Poll(i) ==
    /\ inv[i].pc \in {"created", "suspended"}
    /\ inv' = [inv EXCEPT ![i].span = SpanEnter(@),
                          ![i].pc = IF @ = "created" THEN "start" ELSE "handler"]
    /\ UNCHANGED <<methods, counters, reg_calls, reg_result, context,
                   handler_calls>>
    /\ UNCHANGED syncVars
    /\ UNCHANGED ctxVars

\* Mutant of CallHandler: the call is counted by reading the count, calling
\* the handler and writing the count back, so a call made while another
\* handler runs is not counted.
CallHandler_LostUpdate(i, h) ==
    /\ inv' = [inv EXCEPT ![i].pc = "handler", ![i].method = h,
                          ![i].context = RpcContextClone(context),
                          ![i].params = NoParams]
    /\ handler_calls' =
            IF \E j \in 1..MaxInv : inv[j].pc \in {"handler", "suspended"}
            THEN handler_calls
            ELSE [handler_calls EXCEPT ![h] = @ + 1]

\* method((*context).clone(), input): the handler is called with its own
\* clone of the context.
CallHandler(i, h) ==
    /\ inv' = [inv EXCEPT ![i].pc = "handler", ![i].method = h,
                          ![i].context = RpcContextClone(context),
                          ![i].params = NoParams]
    /\ handler_calls' = [handler_calls EXCEPT ![h] = @ + 1]

\* Mutant of Start: the handler is called before the parameters are parsed.
Start_HandlerFirst(i) ==
    /\ inv[i].pc = "start"
    /\ methods[inv[i].name].input # "no_input"
    /\ CallHandler(i, methods[inv[i].name].method)
    /\ UNCHANGED <<methods, counters, reg_calls, reg_result, context>>
    /\ UNCHANGED syncVars
    /\ UNCHANGED ctxVars

\* v02.rs:81-82  the async block of register_method: parse the parameters;
\* on failure return the parse error (the future is ready, the span is
\* exited); on success call the handler.
Start(i) ==
    /\ inv[i].pc = "start"
    /\ methods[inv[i].name].input # "no_input"
    /\ LET p == Parse(inv[i].params, methods[inv[i].name].input)
       IN  IF p.tag = "Err"
           THEN /\ inv' = [inv EXCEPT ![i].pc = "ready",
                                      ![i].response = ErrResponse(ParseError),
                                      ![i].span = SpanExit(@)]
                /\ UNCHANGED handler_calls
           ELSE CallHandler(i, methods[inv[i].name].method)
    /\ UNCHANGED <<methods, counters, reg_calls, reg_result, context>>
    /\ UNCHANGED syncVars
    /\ UNCHANGED ctxVars

\* Mutant of StartNoInput: the callback decodes what it holds of the
\* parameters before it calls the handler.
StartNoInput_Decodes(i) ==
    /\ inv[i].pc = "start"
    /\ methods[inv[i].name].input = "no_input"
    /\ LET p == Parse(inv[i].params, "text")
       IN  IF p.tag = "Err"
           THEN /\ inv' = [inv EXCEPT ![i].pc = "ready",
                                      ![i].response = ErrResponse(ParseError),
                                      ![i].span = SpanExit(@)]
                /\ UNCHANGED handler_calls
           ELSE CallHandler(i, methods[inv[i].name].method)
    /\ UNCHANGED <<methods, counters, reg_calls, reg_result, context>>
    /\ UNCHANGED syncVars
    /\ UNCHANGED ctxVars

\* v02.rs:124  the async block of register_method_with_no_input: the
\* parameters are ignored and the handler is called.
StartNoInput(i) ==
    /\ inv[i].pc = "start"
    /\ methods[inv[i].name].input = "no_input"
    /\ CallHandler(i, methods[inv[i].name].method)
    /\ UNCHANGED <<methods, counters, reg_calls, reg_result, context>>
    /\ UNCHANGED syncVars
    /\ UNCHANGED ctxVars

\* v02.rs:82, 124  `.await` on the handler's future: it is not ready, the
\* poll returns Pending and the span is exited.
HandlerPending(i) ==
    /\ inv[i].pc = "handler"
    /\ inv' = [inv EXCEPT ![i].pc = "suspended", ![i].span = SpanExit(@)]
    /\ UNCHANGED <<methods, counters, reg_calls, reg_result, context,
                   handler_calls>>
    /\ UNCHANGED syncVars
    /\ UNCHANGED ctxVars

\* Mutant of HandlerReturn: a handler's error is also written over the
\* responses that wait to be taken by the transport.
HandlerReturn_ErrorShared(i) ==
    /\ inv[i].pc = "handler"
    /\ \E r \in HandlerResults :
        inv' = [j \in 1..MaxInv |->
                    IF j = i
                    THEN [inv[j] EXCEPT !.pc = "ready", !.result = r,
                                        !.response = MapErr(r),
                                        !.span = SpanExit(@)]
                    ELSE IF r.tag = "Err" /\ inv[j].pc = "ready"
                    THEN [inv[j] EXCEPT !.response = MapErr(r)]
                    ELSE inv[j]]
    /\ UNCHANGED <<methods, counters, reg_calls, reg_result, context,
                   handler_calls>>
    /\ UNCHANGED syncVars
    /\ UNCHANGED ctxVars

\* v02.rs:82-85, 124-127  the handler's future completes with r: the error
\* is mapped, the future is ready and the span is exited.
HandlerReturn(i) ==
    /\ inv[i].pc = "handler"
    /\ \E r \in HandlerResults :
        inv' = [inv EXCEPT ![i].pc = "ready", ![i].result = r,
                           ![i].response = MapErr(r),
                           ![i].span = SpanExit(@)]
    /\ UNCHANGED <<methods, counters, reg_calls, reg_result, context,
                   handler_calls>>
    /\ UNCHANGED syncVars
    /\ UNCHANGED ctxVars

\* What is left of an invocation whose future has been dropped: everything
\* the future owned is gone and its span is closed.
Dropped(f, how) ==
    [IdleInv EXCEPT !.pc = how, !.name = f.name, !.span = SpanClose(f.span)]

\* The transport takes the response and drops the completed future, and the
\* span with it (v02.rs:87, 129).
Complete(i) ==
    /\ inv[i].pc = "ready"
    /\ inv' = [inv EXCEPT ![i] = Dropped(@, "closed")]
    /\ UNCHANGED <<methods, counters, reg_calls, reg_result, context,
                   handler_calls>>
    /\ UNCHANGED syncVars
    /\ UNCHANGED ctxVars

\* Mutant of Cancel: the future is dropped and its span is left as it was.
Cancel_LeaksSpan(i) ==
    /\ inv[i].pc \in {"created", "suspended"}
    /\ inv' = [inv EXCEPT ![i] = [Dropped(@, "cancelled") EXCEPT
                                        !.span = inv[i].span]]
    /\ UNCHANGED <<methods, counters, reg_calls, reg_result, context,
                   handler_calls>>
    /\ UNCHANGED syncVars
    /\ UNCHANGED ctxVars

\* The transport cancels the invocation: it drops the future at a suspension
\* point, and the span with it (v02.rs:87, 129).
Cancel(i) ==
    /\ inv[i].pc \in {"created", "suspended"}
    /\ inv' = [inv EXCEPT ![i] = Dropped(@, "cancelled")]
    /\ UNCHANGED <<methods, counters, reg_calls, reg_result, context,
                   handler_calls>>
    /\ UNCHANGED syncVars
    /\ UNCHANGED ctxVars

\* The steps of the invocations.
InvokeNext ==
    \E i \in 1..MaxInv :
        \/ MethodCallback(i)
        \/ Poll(i)
        \/ Start(i)
        \/ StartNoInput(i)
        \/ HandlerPending(i)
        \/ HandlerReturn(i)
        \/ Complete(i)
        \/ Cancel(i)

RpcNext ==
    \/ RegisterMethod
    \/ RegisterMethodWithNoInput
    \/ InvokeNext

\* v02.rs:19-26  RpcContext::new(storage, sync_status, chain)
ContextStart(storage, sync_status, chain) ==
    /\ ctx_args = [storage |-> storage, sync_status |-> sync_status,
                   chain |-> chain]
    /\ ctxs = <<RpcContextNew(storage, sync_status, chain)>>

ContextInit ==
    \E storage \in Storages, sync_status \in SyncStatuses, chain \in Chains :
        ContextStart(storage, sync_status, chain)

\* v02.rs:10  context.clone(): one more RpcContext value exists.
Clone(k) ==
    /\ k \in DOMAIN ctxs
    /\ Len(ctxs) < MaxContexts
    /\ ctxs' = Append(ctxs, RpcContextClone(ctxs[k]))
    /\ UNCHANGED ctx_args
    /\ UNCHANGED <<syncVars, rpcVars>>

\* v02.rs:35-40  context.with_pending_data(pending_data): the value is
\* consumed and the one returned takes its place.
WithPendingData(k) ==
    /\ k \in DOMAIN ctxs
    /\ \E pending_data \in PendingDatas :
        ctxs' = [ctxs EXCEPT ![k] = RpcContextWithPendingData(@, pending_data)]
    /\ UNCHANGED ctx_args
    /\ UNCHANGED <<syncVars, rpcVars>>

ContextNext ==
    \E k \in 1..MaxContexts :
        \/ Clone(k)
        \/ WithPendingData(k)

Init == SyncInit /\ RpcInit /\ ContextInit

Next == SyncNext \/ RpcNext \/ ContextNext

Spec == Init /\ [][Next]_vars

\* The context the tests build (v02.rs:29-33, for_tests).
ForTests == ContextStart("storage", "sync_state", "Testnet")

\* The producer alone: nothing is registered or invoked.
SyncOnlyInit == SyncInit /\ RpcInit /\ ForTests

SyncSpec == SyncOnlyInit /\ [][SyncNext]_vars

\* The runtime resumes a task whose pending send has been woken by the
\* channel closing: a send that can fail eventually does.
SyncFairSpec == SyncSpec /\ WF_vars(SendErr)

\* The RPC module alone: the producer, started with no start delay, a poll
\* interval of one tick and a channel of capacity one, is not scheduled.
RpcOnlyInit == SyncStart(0, 1, 1) /\ RpcInit /\ ForTests

RpcSpec == RpcOnlyInit /\ [][RpcNext]_vars

\* The server once its module is built: register_method has been called
\* for "m1" and register_method_with_no_input for "m2", with any handlers
\* and any input type, and nothing has been invoked yet.
ServingInit ==
    /\ SyncStart(0, 1, 1)
    /\ ForTests
    /\ \E h1 \in Handlers, h2 \in Handlers, ty \in InputTypes :
        methods = RegisterAsyncMethod(
                    RegisterAsyncMethod([n \in MethodNames |-> NoBinding],
                                        "m1", [method |-> h1, input |-> ty]).table,
                    "m2", [method |-> h2, input |-> "no_input"]).table
    /\ counters = RegisterCounter(RegisterCounter(
                    [n \in MethodNames |->
                        [registered |-> FALSE, value |-> 0, registrations |-> 0]],
                    "m1"), "m2")
    /\ reg_calls = [n \in MethodNames |-> 1]
    /\ reg_result = "Ok"
    /\ context = RpcContextNew("storage", "sync_state", "Testnet")
    /\ inv = [i \in 1..MaxInv |-> IdleInv]
    /\ handler_calls = [h \in Handlers |-> 0]

\* The transport polls every future it has been handed until it is ready
\* and takes the response, the runtime runs a polled future up to its next
\* suspension point, and a handler that is polled again and again returns.
ServingFairSpec ==
    /\ ServingInit
    /\ [][InvokeNext]_vars
    /\ \A i \in 1..MaxInv :
        /\ WF_vars(Poll(i))
        /\ WF_vars(Start(i))
        /\ WF_vars(StartNoInput(i))
        /\ SF_vars(HandlerReturn(i))
        /\ WF_vars(Complete(i))

\* The RpcContext alone, made with any arguments: nothing is registered or
\* invoked and the producer is not scheduled.
ContextOnlyInit == SyncStart(0, 1, 1) /\ RpcInit /\ ContextInit

ContextSpec == ContextOnlyInit /\ [][ContextNext]_vars

(***************************************************************************)
(* Properties of sync.                                                     *)
(***************************************************************************)
IsQuery(e) == e.ev \in {"query_ok", "query_err"}

IsSend(e) == e.ev \in {"send_ok", "send_err"}

\* The completed queries, in order.
Completions == SelectSeq(trace, IsQuery)

\* Number of values the channel has accepted.
Sent == Len(queue) + Len(received)

Last(s) == s[Len(s)]

\* The first n queries have completed and all of them failed.
FirstFailures(n) ==
    /\ Len(Completions) >= n
    /\ \A i \in 1..n : Completions[i].ev = "query_err"

\* C1: a failed query never ends the task and sends nothing: the step after a
\* failed query is the poll-interval wait of the next iteration (the task is
\* suspended in a fresh, full-length poll-interval sleep, still running, and
\* the next thing it does is complete that wait), however many failures came
\* before.
C1_QueryFailureContinues ==
    \A i \in 1..Len(trace) :
        trace[i].ev = "query_err" =>
            IF i = Len(trace)
            THEN /\ pc = "poll_wait"
                 /\ result = "none"
                 /\ deadline = waiting_since + poll_interval
                 /\ Sent = Cardinality({j \in 1..i : trace[j].ev = "send_ok"})
            ELSE trace[i + 1].ev = "poll_wait"

\* C1 witness: MaxQueries consecutive failures and the task is still waiting.
C1_Witness ==
    /\ FirstFailures(MaxQueries)
    /\ Last(trace).ev = "query_err"
    /\ pc = "poll_wait"
    /\ result = "none"

\* C2: the task has ended only by a failed send: when it has ended, its last
\* step was a send that failed with the receiver gone, and it returned Err.
C2_EndsOnlyOnSendFailure ==
    (pc = "done" \/ result # "none") =>
        /\ pc = "done"
        /\ result = "Err"
        /\ ~rx_alive
        /\ trace # <<>>
        /\ Last(trace).ev = "send_err"
        /\ Len(trace) > 1 /\ trace[Len(trace) - 1].ev = "query_ok"

\* C2 witness: the task ended, after having survived a failed query.
C2_Witness ==
    /\ pc = "done"
    /\ \E i \in 1..Len(trace) : trace[i].ev = "query_err"

\* C3: a send attempted with the consumer end closed ends the task with an
\* error (the only step the suspended send can take, and it is taken), and an
\* ended task performs no further step: no query, no wait, no send.
C3_ClosedConsumerEndsTask ==
    /\ [][/\ (pc = "send" /\ ~rx_alive /\ trace' # trace) =>
                (pc' = "done" /\ result' = "Err" /\ Last(trace').ev = "send_err")
          /\ pc = "done" =>
                (pc' = "done" /\ result' = result /\ trace' = trace)]_vars
    /\ (pc = "send" /\ ~rx_alive) ~> (pc = "done" /\ result = "Err")

\* C3 witness: the task was ended by the closed consumer while it still had
\* queries to make.
C3_Witness ==
    /\ pc = "done"
    /\ result = "Err"
    /\ ~rx_alive
    /\ Queries < MaxQueries

\* C4: with start delay 0, if the first k-1 queries fail, nothing is in the
\* channel before k poll intervals have elapsed; and once the k-th query has
\* succeeded and its send has completed, the channel has received exactly one
\* value and the task is still running.
C4_FirstValueAfterKIntervals ==
    start_delay = 0 =>
        \A k \in 1..MaxQueries :
            FirstFailures(k - 1) =>
                /\ clock < k * poll_interval => Sent = 0
                /\ (/\ Len(Completions) = k
                    /\ Completions[k].ev = "query_ok"
                    /\ rx_alive) =>
                        /\ pc = "send" => (Sent = 0 /\ Len(queue) < capacity)
                        /\ pc # "send" =>
                            /\ Sent = 1
                            /\ pc \in {"poll_wait", "query"}
                            /\ result = "none"

\* C4 witness: the spec's case, two failures and then a success, with a
\* poll interval of two ticks: one value in the channel, task still running.
C4_Witness ==
    /\ start_delay = 0
    /\ poll_interval = 2
    /\ FirstFailures(2)
    /\ Len(Completions) = 3
    /\ Completions[3].ev = "query_ok"
    /\ Sent = 1
    /\ pc = "poll_wait"
    /\ clock >= 3 * poll_interval

\* C5: the start-delay wait is the first step and happens once; every query
\* is immediately preceded by a poll-interval wait, which lasted the whole
\* interval; no query is issued before start delay plus one interval.
C5_WaitBeforeEveryQuery ==
    /\ [](/\ trace = <<>> <=> pc = "start_delay"
          /\ \A i \in 1..Len(trace) : (trace[i].ev = "start_delay") <=> (i = 1)
          /\ \A i \in 1..Len(trace) :
                IsQuery(trace[i]) => (i > 2 /\ trace[i - 1].ev = "poll_wait")
          /\ \A i \in 1..Len(trace) :
                trace[i].ev = "poll_wait" =>
                    trace[i - 1].ev \in {"start_delay", "query_err", "send_ok"}
          /\ Queries >= 1 => clock >= start_delay + Queries * poll_interval)
    /\ [][(pc' = "query" /\ pc # "query") =>
            (pc = "poll_wait" /\ clock >= waiting_since + poll_interval)]_vars

\* C5 witness: a failed query has been followed by a second query, after a
\* start delay and with a non-zero poll interval.
C5_Witness ==
    /\ start_delay > 0
    /\ poll_interval > 0
    /\ Len(Completions) >= 1
    /\ Completions[1].ev = "query_err"
    /\ Queries >= 2
    /\ pc = "query"

\* The values of the successful queries, in query order.
RECURSIVE OkValues(_)
OkValues(t) ==
    IF t = <<>> THEN <<>>
    ELSE IF Head(t).ev = "query_ok"
         THEN <<Head(t).val>> \o OkValues(Tail(t))
         ELSE OkValues(Tail(t))

\* The values the channel has accepted, in the order the consumer sees them.
SentValues == received \o queue

\* C14: the producer is sequential with itself: as many queries have
\* completed as were issued, but for the one in flight, which exists exactly
\* when the task is at the query; a poll-interval wait begins only at the
\* end of the start delay, at a failed query or at a completed send, never
\* while a query or a send is pending.
C14_OneQueryAtATime ==
    /\ Queries - Len(Completions) = (IF pc = "query" THEN 1 ELSE 0)
    /\ pc = "poll_wait" =>
            Last(trace).ev \in {"start_delay", "query_err", "send_ok"}
    /\ pc = "send" <=> (trace # <<>> /\ Last(trace).ev = "query_ok")
    /\ pc = "send" <=> state # "none"
    /\ \A i \in 1..Len(trace) :
            /\ trace[i].ev = "poll_wait" =>
                    trace[i - 1].ev \in {"start_delay", "query_err", "send_ok"}
            /\ trace[i].ev = "query_ok" =>
                    (i = Len(trace) \/ IsSend(trace[i + 1]))

\* C14 witness: a second query is in flight after the first one succeeded
\* and its send completed.
C14_Witness ==
    /\ pc = "query"
    /\ Queries = 2
    /\ Len(Completions) = 1
    /\ Completions[1].ev = "query_ok"
    /\ Sent = 1

\* C17: the values the channel has accepted are the results of the
\* successful queries, in query order, each once: all of them, but for the
\* one whose send is pending or has failed.
C17_SentAreOkResultsInOrder ==
    LET oks == OkValues(trace)
        unsent == IF pc = "send" \/ pc = "done" THEN 1 ELSE 0
    IN  /\ Len(SentValues) = Len(oks) - unsent
        /\ \A i \in 1..Len(SentValues) : SentValues[i] = oks[i]
        /\ pc = "send" => state = oks[Len(oks)]
        /\ Len(SentValues) = Cardinality({i \in 1..Len(trace) : trace[i].ev = "send_ok"})

\* C17 witness: two different results were sent, the consumer is alive and
\* has taken the first.
C17_Witness ==
    /\ rx_alive
    /\ Len(SentValues) = 2
    /\ SentValues[1] # SentValues[2]
    /\ Len(received) >= 1
    /\ \E i \in 1..Len(trace) : trace[i].ev = "query_err"

\* The send is pending on a full channel whose consumer is alive.
BlockedOnFullChannel == pc = "send" /\ rx_alive /\ Len(queue) >= capacity

\* C18: while the send is pending on a full channel the task takes no step
\* (no query, no wait) and keeps the value; it leaves the send only by
\* completing it with that value once there is room, or by failing when the
\* consumer is gone.
C18_FullChannelSuspendsProducer ==
    [][/\ BlockedOnFullChannel =>
            (pc' = "send" /\ trace' = trace /\ state' = state /\ result' = result)
       /\ (pc = "send" /\ pc' # "send") =>
            \/ /\ rx_alive /\ Len(queue) < capacity
               /\ queue' = Append(queue, state) /\ pc' = "poll_wait"
            \/ /\ ~rx_alive
               /\ pc' = "done" /\ queue' = queue]_vars

\* C18 witness: the send has been pending on the full channel for two poll
\* intervals.
C18_Witness ==
    /\ BlockedOnFullChannel
    /\ poll_interval > 0
    /\ clock >= waiting_since + 3 * poll_interval

\* The steps the task has completed since the Receiver was dropped.
SinceClosed == {i \in 1..Len(trace) : i > closed_at}

\* A successful query whose value was still to be sent when the Receiver
\* was dropped, or that succeeded later.
SuccessAfterClose ==
    \/ \E i \in SinceClosed : trace[i].ev = "query_ok"
    \/ closed_at >= 1 /\ trace[closed_at].ev = "query_ok"

\* C19: a dropped consumer is noticed only by a send: after the drop the
\* task is still running as long as no query has succeeded, however many
\* have failed, and it has ended only after a query succeeded and its send
\* was attempted.
C19_ClosedNoticedOnlyOnSend ==
    /\ ~rx_alive <=> closed_at >= 0
    /\ (~rx_alive /\ ~SuccessAfterClose) =>
            (pc \in {"start_delay", "poll_wait", "query"} /\ result = "none")
    /\ pc = "done" =>
            /\ SuccessAfterClose
            /\ Last(trace).ev = "send_err"
            /\ Len(trace) > closed_at

\* C19 witness: since the consumer was dropped two queries have been made
\* and have failed, and the task is waiting to make the next.
C19_Witness ==
    /\ ~rx_alive
    /\ ~SuccessAfterClose
    /\ Cardinality({i \in SinceClosed : trace[i].ev = "query_err"}) >= 2
    /\ Cardinality({i \in SinceClosed : trace[i].ev = "poll_wait"}) >= 2
    /\ pc = "poll_wait"

(***************************************************************************)
(* Properties of the method adapter and the registrar.                     *)
(***************************************************************************)
Invs == 1..MaxInv

\* The callback bound under the name invocation i was routed to.
Bound(i) == methods[inv[i].name]

\* Invocation i is about to run the async block of register_method with
\* parameters that do not decode into the handler's Input type.
DecodeFails(i) ==
    /\ inv[i].pc = "start"
    /\ Bound(i).input # "no_input"
    /\ Parse(inv[i].params, Bound(i).input).tag = "Err"

\* C6: when the raw parameters of an invocation of a method registered with
\* register_method do not decode into the Input type, the step that decodes
\* them completes the invocation with the parse error and calls no handler
\* (every handler's call count is unchanged); a handler's call count changes
\* only in a step that starts a handler whose parameters decoded.
C6_DecodeFailureSkipsHandler ==
    [][\A i \in Invs :
        /\ (DecodeFails(i) /\ inv'[i] # inv[i]) =>
                /\ handler_calls' = handler_calls
                /\ inv'[i].pc = "ready"
                /\ inv'[i].method = "none"
                /\ inv'[i].result = NoResult
                /\ inv'[i].response = ErrResponse(ParseError)
        /\ (inv'[i].method # "none" /\ inv[i].method = "none") =>
                /\ ~DecodeFails(i)
                /\ handler_calls'[inv'[i].method] =
                        handler_calls[inv'[i].method] + 1]_vars

\* C6 witness: an invocation completed with the parse error and no handler
\* has ever been called.
C6_Witness ==
    \E i \in Invs :
        /\ inv[i].pc = "ready"
        /\ inv[i].response = ErrResponse(ParseError)
        /\ \A h \in Handlers : handler_calls[h] = 0

\* C7: for both shapes, a completed invocation whose handler returned Err(E)
\* responds with the transport error made from RpcError::from(E), one whose
\* handler returned Ok(v) responds with v, and the response is an error only
\* when the handler failed or the parameters did not decode; there is no
\* response before the invocation has completed.
C7_ResponseFollowsHandlerResult ==
    \A i \in Invs :
        LET f == inv[i] IN
        /\ f.pc = "ready" =>
            /\ f.result.tag = "Err" =>
                f.response = ErrResponse(JsonRpseeError(IntoRpcError(f.result.val)))
            /\ f.result.tag = "Ok" => f.response = OkResponse(f.result.val)
            /\ f.result.tag = "none" =>
                /\ f.response = ErrResponse(ParseError)
                /\ f.method = "none"
                /\ Bound(i).input # "no_input"
            /\ f.response.tag \in {"Ok", "Err"}
            /\ f.result.tag # "none" => f.method = Bound(i).method
        /\ f.pc # "ready" => (f.response = NoResponse /\ f.result = NoResult)

\* C7 witness: a handler of each shape has failed and both invocations have
\* completed with the mapped error.
C7_Witness ==
    \E i, j \in Invs :
        /\ inv[i].pc = "ready" /\ inv[j].pc = "ready"
        /\ Bound(i).input = "no_input" /\ Bound(j).input # "no_input"
        /\ inv[i].result.tag = "Err" /\ inv[j].result.tag = "Err"
        /\ inv[i].response.tag = "Err" /\ inv[j].response.tag = "Err"

\* C8: a registration call for a name that is already bound fails and leaves
\* the routing table unchanged; a binding, once made, never changes, it was
\* made by the first registration call for its name, and every invocation of
\* the name calls the handler of that binding.
C8_DuplicateRegistrationFails ==
    /\ [][\A n \in MethodNames :
            /\ (reg_calls'[n] = reg_calls[n] + 1 /\ methods[n] # NoBinding) =>
                    (reg_result' = "Err" /\ methods' = methods)
            /\ (reg_calls'[n] = reg_calls[n] + 1 /\ methods[n] = NoBinding) =>
                    (reg_result' = "Ok" /\ methods'[n] # NoBinding)
            /\ methods[n] # NoBinding => methods'[n] = methods[n]]_vars
    /\ [](/\ \A n \in MethodNames : (reg_calls[n] = 0) <=> (methods[n] = NoBinding)
          /\ \A i \in Invs :
                /\ inv[i].pc # "idle" => Bound(i) # NoBinding
                /\ inv[i].method # "none" => inv[i].method = Bound(i).method)

\* C8 witness: the second registration of a name has just failed and a
\* request for the name is being served by the bound handler.
C8_Witness ==
    \E n \in MethodNames, i \in Invs :
        /\ reg_calls[n] = 2
        /\ reg_result = "Err"
        /\ inv[i].name = n
        /\ inv[i].pc = "handler"
        /\ inv[i].method = methods[n].method
        /\ handler_calls[methods[n].method] = 1

\* C9 as stated: the value of the counter of a name equals the number of
\* registration calls made for the name.
C9_CounterCountsRegistrations ==
    \A n \in MethodNames : counters[n].value = reg_calls[n]

\* C9: there is one counter per method name; it is registered by the
\* registration calls for the name and neither they nor the invocations add
\* to it: a counter exists exactly for the names for which a registration
\* call was made, and its value is zero.
C9_CounterRegisteredNotIncremented ==
    \A n \in MethodNames :
        /\ counters[n].registered <=> reg_calls[n] >= 1
        /\ counters[n].value = 0

\* C9 witness: two registration calls were made for a name and a handler
\* has been called.
C9_Witness ==
    \E n \in MethodNames, h \in Handlers :
        /\ reg_calls[n] = 2
        /\ counters[n].registered
        /\ handler_calls[h] >= 1

\* C10: every invocation has a span named after its method from the moment
\* the callback is called, before any decoding or handler call; the span is
\* entered exactly while the invocation is executing (decoding, calling and
\* running the handler, mapping the error), exited when it is suspended or
\* complete, and closed when the future is gone; decoding, the handler call
\* and the completion happen only in steps taken with the span entered.
C10_SpanCoversInvocation ==
    /\ [](\A i \in Invs :
            LET f == inv[i] IN
            /\ f.pc = "idle" <=> f.span = NoSpan
            /\ f.pc # "idle" => f.span.name = f.name
            /\ f.pc \in {"start", "handler"} <=> f.span.state = "entered"
            /\ f.pc \in {"created", "suspended", "ready"} <=> f.span.state = "idle"
            /\ f.pc \in {"closed", "cancelled"} <=> f.span.state = "closed"
            /\ f.pc = "created" =>
                (f.method = "none" /\ f.result = NoResult /\ f.response = NoResponse))
    /\ [][\A i \in Invs :
            (/\ inv'[i].pc \notin {"closed", "cancelled"}
             /\ \/ inv'[i].method # inv[i].method
                \/ inv'[i].result # inv[i].result
                \/ inv'[i].response # inv[i].response
                \/ inv'[i].params # inv[i].params /\ inv[i].pc # "idle") =>
                    (inv[i].span.state = "entered" /\ inv[i].span.name = inv[i].name)]_vars

\* C10 witness: one invocation is done and its span is closed while the
\* handler of another is running inside its own span.
C10_Witness ==
    \E i, j \in Invs :
        /\ inv[i].pc = "closed" /\ inv[i].span.state = "closed"
        /\ inv[j].pc = "handler" /\ inv[j].span.state = "entered"
        /\ inv[j].span.name = inv[j].name

\* C20: every registration call registers the counter of its name, the one
\* that fails on a duplicate name too: the counter registration is done
\* before the routing table is asked, so a call that returns the
\* duplicate-name error and leaves the table as it was has still executed it.
C20_CounterRegisteredBeforeTable ==
    /\ [](\A n \in MethodNames :
            /\ counters[n].registrations = reg_calls[n]
            /\ reg_calls[n] >= 1 => counters[n].registered)
    /\ [][\A n \in MethodNames :
            (reg_calls'[n] = reg_calls[n] + 1 /\ reg_result' = "Err") =>
                /\ methods' = methods
                /\ counters'[n].registrations = counters[n].registrations + 1
                /\ counters' # counters]_vars

\* C20 witness: the second registration call for a name has failed, and
\* the counter registration has been executed twice for one binding.
C20_Witness ==
    \E n \in MethodNames :
        /\ reg_result = "Err"
        /\ reg_calls[n] = 2
        /\ methods[n] # NoBinding
        /\ counters[n].registrations = 2
        /\ \A m \in MethodNames \ {n} : methods[m] = NoBinding

\* C11: the transport can drop an invocation's future only where it is
\* suspended (returned but not yet polled, or pending on the handler), where
\* its span is not entered; the step that drops it closes its span and
\* changes no other invocation, and the span of a cancelled invocation is
\* closed from then on.
C11_CancelClosesSpan ==
    /\ [][\A i \in Invs :
            (inv'[i].pc = "cancelled" /\ inv[i].pc # "cancelled") =>
                /\ inv[i].pc \in {"created", "suspended"}
                /\ inv[i].span.state = "idle"
                /\ inv'[i].span = SpanClose(inv[i].span)
                /\ \A j \in Invs \ {i} : inv'[j] = inv[j]]_vars
    /\ [](\A i \in Invs :
            inv[i].pc = "cancelled" =>
                (inv[i].span.state = "closed" /\ inv[i].span.name = inv[i].name))
    /\ [][\A i \in Invs : inv[i].pc = "cancelled" => inv'[i] = inv[i]]_vars

\* C11 witness: of two invocations suspended on their handlers one has been
\* cancelled and its span is closed, the other is still suspended with its
\* span open.
C11_Witness ==
    \E i, j \in Invs :
        /\ inv[i].pc = "cancelled"
        /\ inv[i].span.state = "closed"
        /\ inv[j].pc = "suspended"
        /\ inv[j].span = InfoSpan(inv[j].name)
        /\ handler_calls["h1"] + handler_calls["h2"] = 2

\* Invocation i was routed to a callback made by
\* register_method_with_no_input.
NoInput(i) == inv[i].pc # "idle" /\ Bound(i).input = "no_input"

\* C12: an invocation of a method registered with
\* register_method_with_no_input holds nothing of the raw parameters; the
\* step that runs its async block always calls the bound handler, once, and
\* no later step of the invocation calls a handler; when it is complete the
\* handler has returned and the response is the handler's result, mapped,
\* never the parse error.
C12_NoInputHasNoDecodePath ==
    /\ [](\A i \in Invs : NoInput(i) =>
            /\ inv[i].params = NoParams
            /\ inv[i].pc = "ready" =>
                    /\ inv[i].method = Bound(i).method
                    /\ inv[i].result \in HandlerResults
                    /\ inv[i].response = MapErr(inv[i].result)
                    /\ inv[i].response # ErrResponse(ParseError))
    /\ [][\A i \in Invs : (NoInput(i) /\ inv'[i] # inv[i]) =>
            IF inv[i].pc = "start"
            THEN /\ inv'[i].pc = "handler"
                 /\ inv'[i].method = Bound(i).method
                 /\ handler_calls' = [handler_calls EXCEPT
                                            ![Bound(i).method] = @ + 1]
            ELSE handler_calls' = handler_calls]_vars

\* C12 witness: a request for a method registered with no input (the
\* transport passed it non-empty parameters, which the callback dropped) has
\* completed with its handler's Ok result after one handler call.
C12_Witness ==
    \E i \in Invs :
        /\ NoInput(i)
        /\ inv[i].pc = "ready"
        /\ inv[i].result.tag = "Ok"
        /\ inv[i].response = OkResponse(inv[i].result.val)
        /\ handler_calls[Bound(i).method] = 1
        /\ \A h \in Handlers \ {Bound(i).method} : handler_calls[h] = 0

\* C15: every step of an invocation, the steps that complete it with a
\* decode error or a handler error among them, changes that invocation
\* alone: the record (response included) of every other invocation, the
\* shared context and the routing table are as before; the context a
\* handler was called with is the invocation's own copy, equal to the
\* shared context, and the shared context never changes.
C15_ErrorsAreLocal ==
    /\ [][\A i \in Invs : inv'[i] # inv[i] =>
            /\ \A j \in Invs \ {i} : inv'[j] = inv[j]
            /\ context' = context
            /\ methods' = methods]_vars
    /\ [][context' = context]_vars
    /\ [](\A i \in Invs :
            /\ inv[i].method # "none" => inv[i].context = context
            /\ inv[i].method = "none" => inv[i].context = NoContext)

\* C15 witness: one invocation has completed with a decode error and the
\* other with its handler's value, and both responses wait to be taken; the
\* shared context is as constructed.
C15_Witness ==
    \E i, j \in Invs :
        /\ inv[i].pc = "ready"
        /\ inv[i].response = ErrResponse(ParseError)
        /\ inv[j].pc = "ready"
        /\ inv[j].result.tag = "Ok"
        /\ inv[j].response = OkResponse(inv[j].result.val)
        /\ inv[j].context = context
        /\ context = RpcContextNew("storage", "sync_state", "Testnet")

\* C13: every RpcContext made from the one RpcContext::new returned, by any
\* sequence of clone and with_pending_data, has the chain (and the storage
\* and the sync status) that was given to new; no step changes the chain,
\* storage or sync status of a context or takes the pending data of a
\* context from present to absent; a clone is equal to the context it was
\* cloned from.
C13_ContextKeepsChainAndPending ==
    /\ [](\A k \in DOMAIN ctxs :
            /\ ctxs[k].chain = ctx_args.chain
            /\ ctxs[k].storage = ctx_args.storage
            /\ ctxs[k].sync_status = ctx_args.sync_status)
    /\ [][/\ ctx_args' = ctx_args
          /\ \A k \in DOMAIN ctxs :
                /\ k \in DOMAIN ctxs'
                /\ ctxs'[k].chain = ctxs[k].chain
                /\ ctxs'[k].storage = ctxs[k].storage
                /\ ctxs'[k].sync_status = ctxs[k].sync_status
                /\ ctxs[k].pending_data # "None" =>
                        ctxs'[k].pending_data # "None"
          /\ \A k \in DOMAIN ctxs' \ DOMAIN ctxs :
                \E m \in DOMAIN ctxs : ctxs'[k] = ctxs[m]]_vars

\* C13 witness: a context made for Mainnet has been cloned before and after
\* with_pending_data, and with_pending_data has been applied twice to one
\* value: one context has no pending data, the others have different ones.
C13_Witness ==
    /\ ctx_args.chain = "Mainnet"
    /\ Len(ctxs) = 3
    /\ \E a, b, c \in DOMAIN ctxs :
        /\ ctxs[a].pending_data = "None"
        /\ ctxs[b].pending_data = "pending_a"
        /\ ctxs[c].pending_data = "pending_b"

TotalHandlerCalls == handler_calls["h1"] + handler_calls["h2"]

\* The invocations that hold the handler they called.
Called == {i \in Invs : inv[i].method # "none"}

\* The invocations whose future has been dropped.
Gone == {i \in Invs : inv[i].pc \in {"closed", "cancelled"}}

\* C16: with the invocations spread over the registered methods and
\* interleaved in every way, every handler is called with a context whose
\* chain is the shared context's; the calls counted are the calls made, one
\* for each invocation that called its handler and none lost (while no future
\* has been dropped yet the count is exactly the number of invocations that
\* hold a handler); and every invocation handed to the transport gets to its
\* end: its future completes and is taken, unless the transport cancels it.
C16_ConcurrentInvocationsComplete ==
    /\ [](\A i \in Called : inv[i].context.chain = context.chain)
    /\ [](/\ Cardinality(Called) <= TotalHandlerCalls
          /\ TotalHandlerCalls <= Cardinality(Called) + Cardinality(Gone)
          /\ Gone = {} => TotalHandlerCalls = Cardinality(Called))
    /\ \A i \in Invs :
            (inv[i].pc = "created") ~> (inv[i].pc \in {"closed", "cancelled"})

\* C16 witness: invocations of two distinct methods were in flight together
\* and every invocation has completed with its handler's result; the count
\* is the number of invocations.
C16_Witness ==
    /\ \A i \in Invs : inv[i].pc = "ready" /\ inv[i].result \in HandlerResults
    /\ \E i, j \in Invs : inv[i].name # inv[j].name
    /\ \A i \in Invs : inv[i].context.chain = "Testnet"
    /\ TotalHandlerCalls = Cardinality(Invs)

====
